---- MODULE Spec2Model ----
(***************************************************************************)
(* Model of the tri-state optional `Maybe<T>` (src/src/lib.rs) with        *)
(* T = i32 as in the test record `Dto`: the presence predicates, clone,    *)
(* the conversions to and from Option<T>, the serde Serialize/Deserialize  *)
(* implementations as driven by a derived record, and the async_graphql    *)
(* InputType adapter (parse / to_value).                                   *)
(*                                                                         *)
(* Structured values (a JSON field value, an async_graphql Value) are      *)
(* records tagged by `kind`; a number carries its decimal text, so that    *)
(* encoding an i32 formats it and decoding parses and range-checks it.     *)
(***************************************************************************)
EXTENDS Integers, Sequences

VARIABLES dto, cfg, call

vars == <<dto, cfg, call>>

----------------------------------------------------------------------------
(* Bounds and the wrapped type                                             *)

\* small integers -MaxAbs..MaxAbs are among the i32 payloads explored
MaxAbs == 1

I32_MAX == 2147483647

I32_MIN == -I32_MAX - 1

\* the i32 payloads explored: the extremes, the values the tests use, and
\* the small integers
I32Values == {I32_MIN, I32_MAX, 34, 42, 101} \cup (-MaxAbs .. MaxAbs)

----------------------------------------------------------------------------
(* Result<T, E>                                                            *)

Ok(v) == [ok |-> TRUE, val |-> v]

Err(e) == [ok |-> FALSE, err |-> e]

----------------------------------------------------------------------------
(* enum Maybe<T> and Option<T>                                             *)

MaybeVoid == [ty |-> "Maybe", tag |-> "Void"]

MaybeNone == [ty |-> "Maybe", tag |-> "None"]

MaybeSome(v) == [ty |-> "Maybe", tag |-> "Some", value |-> v]

OptionNone == [ty |-> "Option", tag |-> "None"]

OptionSome(v) == [ty |-> "Option", tag |-> "Some", value |-> v]

MaybeValues == {MaybeVoid, MaybeNone} \cup {MaybeSome(v) : v \in I32Values}

OptionValues == {OptionNone} \cup {OptionSome(v) : v \in I32Values}

\* variant: #[default] put on None
Maybe_default_none == MaybeNone

\* #[derive(Default)] with #[default] on Void
Maybe_default == MaybeVoid

is_void(self) == self.tag = "Void"

\* variant: the pattern also matches Void
is_none_or_void(self) == self.tag \in {"None", "Void"}

is_none(self) == self.tag = "None"

is_some(self) == self.tag = "Some"

clone(self) ==
    CASE self.tag = "Void" -> MaybeVoid
      [] self.tag = "None" -> MaybeNone
      [] self.tag = "Some" -> MaybeSome(self.value)

\* variant: an absent optional becomes Void
Maybe_from_void(option) ==
    CASE option.tag = "Some" -> MaybeSome(option.value)
      [] option.tag = "None" -> MaybeVoid

\* impl From<Option<T>> for Maybe<T>
Maybe_from(option) ==
    CASE option.tag = "Some" -> MaybeSome(option.value)
      [] option.tag = "None" -> MaybeNone

\* variant: the Some arm is missing, every state collapses to absent
Option_from_absent(maybe) == OptionNone

\* impl From<Maybe<T>> for Option<T>
Option_from(maybe) ==
    CASE maybe.tag = "Some" -> OptionSome(maybe.value)
      [] OTHER -> OptionNone

----------------------------------------------------------------------------
(* Structured values and the i32 codec                                     *)

Null == [kind |-> "Null"]

Number(text) == [kind |-> "Number", text |-> text]

String(s) == [kind |-> "String", s |-> s]

Bool(b) == [kind |-> "Bool", b |-> b]

DigitChars == <<"0", "1", "2", "3", "4", "5", "6", "7", "8", "9">>

DigitOf(c) == CHOOSE d \in 0..9 : DigitChars[d + 1] = c

RECURSIVE UDigits(_)
\* decimal digits of a natural number, most significant first
UDigits(u) ==
    IF u < 10 THEN <<DigitChars[u + 1]>>
    ELSE Append(UDigits(u \div 10), DigitChars[(u % 10) + 1])

\* decimal text of an i32, as the serializer writes it; the magnitude of a
\* negative number is split before negating so that I32_MIN does not overflow
fmt_i32(n) ==
    IF n >= 0 THEN UDigits(n)
    ELSE LET r    == n % 10
             last == (10 - r) % 10
             q    == n \div 10
             rest == IF r = 0 THEN -q ELSE -q - 1
         IN  <<"-">> \o (IF rest = 0 THEN <<>> ELSE UDigits(rest))
                     \o <<DigitChars[last + 1]>>

RECURSIVE ParseDigits(_, _, _)
\* accumulate the digits of a number text towards the sign; the result is
\* "overflow" as soon as the value leaves the i32 range
ParseDigits(ds, neg, acc) ==
    IF ds = <<>> THEN Ok(acc)
    ELSE LET d     == DigitOf(Head(ds))
             limit == I32_MAX \div 10
             lastd == IF neg THEN (I32_MAX % 10) + 1 ELSE I32_MAX % 10
             mag   == IF neg THEN -acc ELSE acc
         IN  IF mag > limit \/ (mag = limit /\ d > lastd)
             THEN Err("overflow")
             ELSE ParseDigits(Tail(ds), neg,
                              IF neg THEN acc * 10 - d ELSE acc * 10 + d)

\* the integer a number text denotes, if it fits an i32
parse_i32(text) ==
    IF Head(text) = "-" THEN ParseDigits(Tail(text), TRUE, 0)
    ELSE ParseDigits(text, FALSE, 0)

\* <i32 as Serialize>::serialize
i32_serialize(v) == Ok(Number(fmt_i32(v)))

\* the deserializer handed to a field that is absent from the record and has
\* no default: it answers deserialize_option with visit_none and everything
\* else with a missing-field error
Missing(field) == [kind |-> "Missing", field |-> field]

\* <i32 as Deserialize>::deserialize
i32_deserialize(value) ==
    IF value.kind = "Missing"
    THEN Err([kind |-> "missing_field", field |-> value.field])
    ELSE IF value.kind = "Number"
    THEN LET r == parse_i32(value.text)
         IN  IF r.ok THEN r
             ELSE Err([kind |-> "invalid_value", unexpected |-> value,
                       expected |-> "i32"])
    ELSE Err([kind |-> "invalid_type", unexpected |-> value,
              expected |-> "i32"])

\* <String as Deserialize>::deserialize
String_deserialize(value) ==
    IF value.kind = "Missing"
    THEN Err([kind |-> "missing_field", field |-> value.field])
    ELSE IF value.kind = "String" THEN Ok(value.s)
    ELSE Err([kind |-> "invalid_type", unexpected |-> value,
              expected |-> "a string"])

\* <Option<i32> as Serialize>::serialize
Option_serialize(option) ==
    CASE option.tag = "Some" -> i32_serialize(option.value)
      [] option.tag = "None" -> Ok(Null)

\* <Option<i32> as Deserialize>::deserialize: deserialize_option answers
\* visit_none for null (and for an absent field), visit_some otherwise
Option_deserialize(value) ==
    IF value.kind \in {"Null", "Missing"} THEN Ok(OptionNone)
    ELSE LET r == i32_deserialize(value)
         IN  IF r.ok THEN Ok(OptionSome(r.val)) ELSE r

----------------------------------------------------------------------------
(* impl Serialize / Deserialize for Maybe<T>                               *)

error_message ==
    "'Maybe' fields need to be annotated with:\n        #[serde(default, skip_serializing_if = \"Maybe::is_void\")]\n        "

\* variant: Void is written as null instead of failing
Maybe_serialize_void_null(self) ==
    CASE self.tag = "Some" -> i32_serialize(self.value)
      [] OTHER -> Ok(Null)

\* variant: only Some is encodable, None fails like Void
Maybe_serialize_none_fails(self) ==
    CASE self.tag = "Some" -> i32_serialize(self.value)
      [] OTHER -> Err([kind |-> "custom", msg |-> error_message])

Maybe_serialize(self) ==
    CASE self.tag = "Some" -> i32_serialize(self.value)
      [] self.tag = "None" -> Ok(Null)
      [] self.tag = "Void" -> Err([kind |-> "custom", msg |-> error_message])

\* variant: T is decoded directly, null is not recognised
Maybe_deserialize_no_null(value) ==
    LET r == i32_deserialize(value)
    IN  IF r.ok THEN Ok(MaybeSome(r.val)) ELSE r

\* variant: null decodes to the default value
Maybe_deserialize_null_default(value) ==
    IF value.kind \in {"Null", "Missing"} THEN Ok(Maybe_default)
    ELSE LET r == i32_deserialize(value)
         IN  IF r.ok THEN Ok(MaybeSome(r.val)) ELSE r

\* Option::deserialize(deserializer).map(Into::into)
Maybe_deserialize(value) ==
    LET r == Option_deserialize(value)
    IN  IF r.ok THEN Ok(Maybe_from(r.val)) ELSE r

----------------------------------------------------------------------------
(* struct Dto { a: String, b: Maybe<i32>, c: Option<i32> } and its derived *)
(* Serialize / Deserialize / Default.  cfg says which of the two field     *)
(* attributes of b are present: cfg.default for #[serde(default)] and      *)
(* cfg.skip for skip_serializing_if = "Maybe::is_void".                    *)

Entry(key, value) == [key |-> key, value |-> value]

\* #[derive(Default)] for Dto
Dto_default == [a |-> "", b |-> Maybe_default, c |-> OptionNone]

\* the outcome of serialize_field for one field: skipped, or the result of
\* the field value's serialize
SerializeField(d, c, key) ==
    CASE key = "a" -> [skip |-> FALSE, r |-> Ok(String(d.a))]
      [] key = "b" -> IF c.skip /\ is_void(d.b)
                      THEN [skip |-> TRUE]
                      ELSE [skip |-> FALSE, r |-> Maybe_serialize(d.b)]
      [] key = "c" -> [skip |-> FALSE, r |-> Option_serialize(d.c)]

RECURSIVE SerializeFields(_, _, _, _)
\* the derived serialize: the fields in declaration order; the first field
\* error ends the whole serialization
SerializeFields(d, c, keys, out) ==
    IF keys = <<>> THEN Ok(out)
    ELSE LET f == SerializeField(d, c, Head(keys))
         IN  IF f.skip THEN SerializeFields(d, c, Tail(keys), out)
             ELSE IF ~f.r.ok THEN f.r
             ELSE SerializeFields(d, c, Tail(keys),
                                  Append(out, Entry(Head(keys), f.r.val)))

Dto_serialize(d, c) == SerializeFields(d, c, <<"a", "b", "c">>, <<>>)

\* serde_json::to_string: the text of the record, or the error; the buffer
\* written so far is dropped on error
to_string(d, c) == Dto_serialize(d, c)

Unset == [set |-> FALSE]

Set(v) == [set |-> TRUE, val |-> v]

\* the field value's deserialize, by key
DeserializeField(key, value) ==
    CASE key = "a" -> String_deserialize(value)
      [] key = "b" -> Maybe_deserialize(value)
      [] key = "c" -> Option_deserialize(value)

RECURSIVE VisitMap(_, _)
\* the derived visit_map loop: entries in wire order, unknown keys ignored,
\* a repeated key or a field error ends the decoding
VisitMap(entries, slots) ==
    IF entries = <<>> THEN Ok(slots)
    ELSE LET e == Head(entries)
         IN  IF e.key \notin {"a", "b", "c"}
             THEN VisitMap(Tail(entries), slots)
             ELSE IF slots[e.key].set
             THEN Err([kind |-> "duplicate_field", field |-> e.key])
             ELSE LET r == DeserializeField(e.key, e.value)
                  IN  IF ~r.ok THEN r
                      ELSE VisitMap(Tail(entries),
                                    [slots EXCEPT ![e.key] = Set(r.val)])

\* a field the loop did not see: the default when #[serde(default)] is
\* present, otherwise the field type decodes the missing-field deserializer
FieldOrMissing(slots, c, key) ==
    IF slots[key].set THEN Ok(slots[key].val)
    ELSE IF key = "b" /\ c.default THEN Ok(Maybe_default)
    ELSE DeserializeField(key, Missing(key))

Dto_deserialize(entries, c) ==
    LET m == VisitMap(entries, [a |-> Unset, b |-> Unset, c |-> Unset])
    IN  IF ~m.ok THEN m
        ELSE LET fa == FieldOrMissing(m.val, c, "a")
                 fb == FieldOrMissing(m.val, c, "b")
                 fc == FieldOrMissing(m.val, c, "c")
             IN  IF ~fa.ok THEN fa
                 ELSE IF ~fb.ok THEN fb
                 ELSE IF ~fc.ok THEN fc
                 ELSE Ok([a |-> fa.val, b |-> fb.val, c |-> fc.val])

\* serde_json::from_str on the text of a JSON object
from_str(entries, c) == Dto_deserialize(entries, c)

----------------------------------------------------------------------------
(* impl InputType for Maybe<T> (async_graphql)                             *)

i32_type_name == "Int"

Maybe_type_name == i32_type_name

\* <i32 as InputType>::parse
i32_parse(value) ==
    LET v == IF value.tag = "Some" THEN value.value ELSE Null
    IN  IF v.kind = "Number"
        THEN LET r == parse_i32(v.text)
             IN  IF r.ok THEN r
                 ELSE Err([ty |-> i32_type_name, kind |-> "out_of_range"])
        ELSE Err([ty |-> i32_type_name, kind |-> "expected_type",
                  value |-> v])

\* <i32 as InputType>::to_value
i32_to_value(v) == Number(fmt_i32(v))

\* InputValueError::propagate: the message is kept; the name of the target
\* type is appended when it differs from the source type's
propagate(e, target) ==
    IF e.ty # target THEN [e EXCEPT !.ty = target] ELSE e

\* variant: T's parse error is dropped (.ok() in place of ?)
Maybe_parse_swallow(value) ==
    CASE value.tag = "None" -> Ok(MaybeVoid)
      [] value.tag = "Some" /\ value.value = Null -> Ok(MaybeNone)
      [] OTHER ->
            LET r == i32_parse(OptionSome(value.value))
            IN  IF r.ok THEN Ok(MaybeSome(r.val)) ELSE Ok(MaybeNone)

Maybe_parse(value) ==
    CASE value.tag = "None" -> Ok(MaybeVoid)
      [] value.tag = "Some" /\ value.value = Null -> Ok(MaybeNone)
      [] OTHER ->
            LET r == i32_parse(OptionSome(value.value))
            IN  IF r.ok THEN Ok(MaybeSome(r.val))
                ELSE Err(propagate(r.err, Maybe_type_name))

\* variant: every state is written as null
Maybe_to_value_null(self) == Null

Maybe_to_value(self) ==
    CASE self.tag = "Some" -> i32_to_value(self.value)
      [] OTHER -> Null

----------------------------------------------------------------------------
(* Inputs                                                                  *)

\* the records a caller constructs
Dtos ==
    {[a |-> "Hello!", b |-> b, c |-> c] :
        b \in MaybeValues, c \in {OptionNone, OptionSome(101)}}

Cfgs == [default : BOOLEAN, skip : BOOLEAN]

\* number texts just outside the i32 range
TooBig == <<"2", "1", "4", "7", "4", "8", "3", "6", "4", "8">>

TooSmall == <<"-", "2", "1", "4", "7", "4", "8", "3", "6", "4", "9">>

\* structured values a field of type Maybe<i32> can be handed
Values ==
    {Null, String("34"), Bool(TRUE), Number(TooBig), Number(TooSmall)}
        \cup {Number(fmt_i32(v)) : v \in I32Values}

Absent == <<>>

\* JSON objects received from outside: each field absent or present
Payloads ==
    {fa \o fb \o fc :
        fa \in {Absent, <<Entry("a", String("Hello!"))>>},
        fb \in {Absent} \cup {<<Entry("b", v)>> : v \in Values},
        fc \in {Absent, <<Entry("c", Null)>>, <<Entry("c", Number(<<"0">>))>>}}

\* what a query hands to parse: argument not supplied, or a value
Arguments == {OptionNone} \cup {OptionSome(v) : v \in Values}

----------------------------------------------------------------------------
(* The calls a client makes.  `call` records the last call: its operation, *)
(* argument and return value; a call made on the return value of the call  *)
(* before it is `chained` and records in `of` what that call was made on.  *)

Init ==
    /\ dto \in Dtos
    /\ cfg \in Cfgs
    /\ call = [op |-> "new"]

DtoDefault ==
    /\ dto' = Dto_default
    /\ call' = [op |-> "default"]
    /\ UNCHANGED cfg

SetB ==
    \E b \in MaybeValues :
        /\ dto' = [dto EXCEPT !.b = b]
        /\ call' = [op |-> "new"]
        /\ UNCHANGED cfg

IsVoid ==
    /\ call' = [op |-> "is_void", arg |-> dto.b, ret |-> is_void(dto.b)]
    /\ UNCHANGED <<dto, cfg>>

IsNone ==
    /\ call' = [op |-> "is_none", arg |-> dto.b, ret |-> is_none(dto.b)]
    /\ UNCHANGED <<dto, cfg>>

IsSome ==
    /\ call' = [op |-> "is_some", arg |-> dto.b, ret |-> is_some(dto.b)]
    /\ UNCHANGED <<dto, cfg>>

Clone ==
    /\ call' = [op |-> "clone", arg |-> dto.b, ret |-> clone(dto.b)]
    /\ UNCHANGED <<dto, cfg>>

\* Option::from(dto.b)
Into ==
    /\ call' = [op |-> "into", arg |-> dto.b, ret |-> Option_from(dto.b),
                chained |-> FALSE]
    /\ UNCHANGED <<dto, cfg>>

\* Maybe::from(option)
From ==
    \E o \in OptionValues :
        /\ call' = [op |-> "from", arg |-> o, ret |-> Maybe_from(o),
                    chained |-> FALSE]
        /\ UNCHANGED <<dto, cfg>>

\* Maybe::from(Option::from(maybe))
FromInto ==
    /\ call.op = "into" /\ ~call.chained
    /\ call' = [op |-> "from", arg |-> call.ret, ret |-> Maybe_from(call.ret),
                chained |-> TRUE, of |-> call.arg]
    /\ UNCHANGED <<dto, cfg>>

\* Option::from(Maybe::from(option))
IntoFrom ==
    /\ call.op = "from" /\ ~call.chained
    /\ call' = [op |-> "into", arg |-> call.ret, ret |-> Option_from(call.ret),
                chained |-> TRUE, of |-> call.arg]
    /\ UNCHANGED <<dto, cfg>>

\* dto.b.serialize(serializer), the field value on its own
Serialize ==
    /\ call' = [op |-> "serialize", arg |-> dto.b,
                ret |-> Maybe_serialize(dto.b)]
    /\ UNCHANGED <<dto, cfg>>

\* Maybe::deserialize(deserializer) on a value or on an absent field
Deserialize ==
    \E v \in Values \cup {Missing("b")} :
        /\ call' = [op |-> "deserialize", arg |-> v,
                    ret |-> Maybe_deserialize(v)]
        /\ UNCHANGED <<dto, cfg>>

\* serde_json::to_string(&dto)
ToStr ==
    /\ call' = [op |-> "to_string", arg |-> dto, ret |-> to_string(dto, cfg)]
    /\ UNCHANGED <<dto, cfg>>

\* serde_json::from_str(payload)
FromStr ==
    \E p \in Payloads :
        /\ call' = [op |-> "from_str", arg |-> p, ret |-> from_str(p, cfg),
                    chained |-> FALSE]
        /\ UNCHANGED <<dto, cfg>>

\* serde_json::from_str(&serde_json::to_string(&dto)?)
FromStrToString ==
    /\ call.op = "to_string" /\ call.ret.ok
    /\ call' = [op |-> "from_str", arg |-> call.ret.val,
                ret |-> from_str(call.ret.val, cfg),
                chained |-> TRUE, of |-> call.arg]
    /\ UNCHANGED <<dto, cfg>>

\* Maybe::parse(argument)
Parse ==
    \E v \in Arguments :
        /\ call' = [op |-> "parse", arg |-> v, ret |-> Maybe_parse(v),
                    chained |-> FALSE]
        /\ UNCHANGED <<dto, cfg>>

\* dto.b.to_value()
ToValue ==
    /\ call' = [op |-> "to_value", arg |-> dto.b, ret |-> Maybe_to_value(dto.b)]
    /\ UNCHANGED <<dto, cfg>>

\* Maybe::parse(Some(maybe.to_value()))
ParseToValue ==
    /\ call.op = "to_value"
    /\ call' = [op |-> "parse", arg |-> OptionSome(call.ret),
                ret |-> Maybe_parse(OptionSome(call.ret)),
                chained |-> TRUE, of |-> call.arg]
    /\ UNCHANGED <<dto, cfg>>

Next ==
    \/ DtoDefault
    \/ SetB
    \/ IsVoid
    \/ IsNone
    \/ IsSome
    \/ Clone
    \/ Into
    \/ From
    \/ FromInto
    \/ IntoFrom
    \/ Serialize
    \/ Deserialize
    \/ ToStr
    \/ FromStr
    \/ FromStrToString
    \/ Parse
    \/ ToValue
    \/ ParseToValue

Spec == Init /\ [][Next]_vars

----------------------------------------------------------------------------
(* Properties                                                              *)

HasKey(entries, key) == \E i \in DOMAIN entries : entries[i].key = key

ValueOf(entries, key) ==
    entries[CHOOSE i \in DOMAIN entries : entries[i].key = key].value

\* values present on the wire that are not null and not an i32
Malformed == {String("34"), Bool(TRUE), Number(TooBig), Number(TooSmall)}

Annotated == cfg.default /\ cfg.skip

\* C1: with default = Void on decode and skip = is_void on encode, decoding
\* the encoding of a record returns the record: b comes back Void when it
\* was Void (omitted on the wire), None when it was None (null on the
\* wire), Some(v) when it was Some(v).
C1_RecordRoundTrip ==
    (call.op = "from_str" /\ call.chained /\ Annotated) =>
        /\ call.ret = Ok(call.of)
        /\ is_void(call.of.b) =>
              ~HasKey(call.arg, "b") /\ call.ret.val.b = MaybeVoid
        /\ is_none(call.of.b) =>
              ValueOf(call.arg, "b") = Null /\ call.ret.val.b = MaybeNone
        /\ is_some(call.of.b) =>
              call.ret.val.b = MaybeSome(call.of.b.value)

C1_Witness ==
    /\ call.op = "from_str" /\ call.chained /\ Annotated
    /\ call.of.b = MaybeVoid
    /\ call.arg = <<Entry("a", String("Hello!")),
                    Entry("c", Number(<<"1", "0", "1">>))>>
    /\ call.ret.ok

\* C2: a Void that reaches the encoder (the field value serialized on its
\* own, or inside a record whose skip predicate is not configured) makes
\* the encode fail with the error naming the missing annotation; it does
\* not succeed, emits no null and yields no output for the record.
C2_VoidEncodeFails ==
    LET failure == Err([kind |-> "custom", msg |-> error_message])
    IN  /\ (call.op = "serialize" /\ call.arg = MaybeVoid) =>
              call.ret = failure
        /\ (call.op = "to_string" /\ call.arg.b = MaybeVoid /\ ~cfg.skip) =>
              /\ ~call.ret.ok
              /\ call.ret = failure
              /\ "val" \notin DOMAIN call.ret

C2_Witness ==
    /\ call.op = "to_string" /\ call.arg.b = MaybeVoid /\ ~cfg.skip
    /\ ~call.ret.ok

\* C3: with the skip predicate configured, Some(v) is encoded exactly as
\* the bare v is, None as an explicit null, and Void omits the field.
C3_EncodeWithSkip ==
    (call.op = "to_string" /\ cfg.skip) =>
        /\ call.ret.ok
        /\ \A v \in I32Values :
              call.arg.b = MaybeSome(v) =>
                 /\ HasKey(call.ret.val, "b")
                 /\ Ok(ValueOf(call.ret.val, "b")) = i32_serialize(v)
        /\ call.arg.b = MaybeSome(42) =>
              ValueOf(call.ret.val, "b") = Number(<<"4", "2">>)
        /\ call.arg.b = MaybeNone =>
              HasKey(call.ret.val, "b") /\ ValueOf(call.ret.val, "b") = Null
        /\ call.arg.b = MaybeVoid => ~HasKey(call.ret.val, "b")

C3_Witness ==
    /\ call.op = "to_string" /\ cfg.skip
    /\ call.arg.b = MaybeNone
    /\ call.ret.ok /\ ValueOf(call.ret.val, "b") = Null

\* C4: with default = Void configured, a field present as null decodes to
\* None, a field present with a well-formed value decodes to Some of that
\* value, and an absent field yields Void.
C4_DecodeWithDefault ==
    (call.op = "from_str" /\ ~call.chained /\ cfg.default
        /\ HasKey(call.arg, "a")) =>
        /\ ~HasKey(call.arg, "b") =>
              call.ret.ok /\ call.ret.val.b = MaybeVoid
        /\ (HasKey(call.arg, "b") /\ ValueOf(call.arg, "b") = Null) =>
              call.ret.ok /\ call.ret.val.b = MaybeNone
        /\ \A v \in I32Values :
              (HasKey(call.arg, "b")
                  /\ ValueOf(call.arg, "b") = Number(fmt_i32(v))) =>
                 call.ret.ok /\ call.ret.val.b = MaybeSome(v)

C4_Witness ==
    /\ call.op = "from_str" /\ ~call.chained /\ cfg.default
    /\ call.arg = <<Entry("a", String("Hello!")),
                    Entry("c", Number(<<"0">>))>>
    /\ call.ret.ok /\ call.ret.val.b = MaybeVoid

\* C5: from(into(Some(v))) = Some(v); into(from(absent)) = absent; and
\* into(Void) = absent while from(absent) = None, so that from(into(Void))
\* is None and not Void.
C5_BinaryOptionalRoundTrip ==
    /\ (call.op = "from" /\ call.chained) =>
          /\ \A v \in I32Values :
                call.of = MaybeSome(v) => call.ret = MaybeSome(v)
          /\ call.of = MaybeVoid =>
                call.ret = MaybeNone /\ call.ret # MaybeVoid
    /\ (call.op = "into" /\ call.chained /\ call.of = OptionNone) =>
          call.ret = OptionNone
    /\ (call.op = "into" /\ ~call.chained /\ call.arg = MaybeVoid) =>
          call.ret = OptionNone
    /\ (call.op = "from" /\ call.arg = OptionNone) => call.ret = MaybeNone

C5_Witness ==
    /\ call.op = "from" /\ call.chained
    /\ call.of = MaybeVoid
    /\ call.arg = OptionNone
    /\ call.ret = MaybeNone

\* C6: from(option) is total and never Void: present(v) gives Some(v),
\* absent gives None, and is_void is false of every result.
C6_FromNeverVoid ==
    call.op = "from" =>
        /\ call.ret \in MaybeValues
        /\ call.ret.tag # "Void"
        /\ ~is_void(call.ret)
        /\ \A v \in I32Values :
              call.arg = OptionSome(v) => call.ret = MaybeSome(v)
        /\ call.arg = OptionNone => call.ret = MaybeNone

C6_Witness ==
    call.op = "from" /\ ~call.chained /\ call.arg = OptionNone
        /\ call.ret = MaybeNone

\* C7: a present value that cannot be decoded as T makes the decode return
\* T's decode error: the field value's deserialize, the record's from_str
\* and the adapter's parse never answer Void, None or Some for it.
C7_DecodeErrorPropagates ==
    /\ (call.op = "deserialize" /\ call.arg \in Malformed) =>
          /\ ~call.ret.ok
          /\ call.ret = i32_deserialize(call.arg)
    /\ (call.op = "from_str" /\ HasKey(call.arg, "b")
           /\ ValueOf(call.arg, "b") \in Malformed) =>
          /\ ~call.ret.ok
          /\ call.ret = i32_deserialize(ValueOf(call.arg, "b"))
    /\ (call.op = "parse" /\ call.arg.tag = "Some"
           /\ call.arg.value \in Malformed) =>
          /\ ~call.ret.ok
          /\ call.ret.err = i32_parse(call.arg).err

C7_Witness ==
    /\ call.op = "parse"
    /\ call.arg = OptionSome(String("34"))
    /\ ~call.ret.ok

\* C8: exactly one of is_void, is_none, is_some is true of a value, each
\* being true exactly of its own variant, and a call of a predicate leaves
\* the value unchanged.
C8_PredicatesExclusive ==
    /\ [](/\ (call.op = "is_void") => (call.ret <=> call.arg.tag = "Void")
          /\ (call.op = "is_none") => (call.ret <=> call.arg.tag = "None")
          /\ (call.op = "is_some") => (call.ret <=> call.arg.tag = "Some")
          /\ \/ is_void(dto.b) /\ ~is_none(dto.b) /\ ~is_some(dto.b)
             \/ ~is_void(dto.b) /\ is_none(dto.b) /\ ~is_some(dto.b)
             \/ ~is_void(dto.b) /\ ~is_none(dto.b) /\ is_some(dto.b))
    /\ [][call'.op \in {"is_void", "is_none", "is_some"} =>
             (dto' = dto /\ call'.arg = dto.b)]_vars

C8_Witness ==
    call.op = "is_none" /\ call.arg = MaybeVoid /\ call.ret = FALSE

\* C9: parse maps a missing argument to Void, null to None and a value to
\* Some of T's parse; to_value maps Some(v) to T's value and both Void and
\* None to null; so parse(to_value(m)) is Some(v) for Some(v), None for
\* None, and None, not Void, for Void.
C9_AdapterParseToValue ==
    /\ (call.op = "parse") =>
          /\ call.arg = OptionNone => call.ret = Ok(MaybeVoid)
          /\ call.arg = OptionSome(Null) => call.ret = Ok(MaybeNone)
          /\ \A v \in I32Values :
                call.arg = OptionSome(Number(fmt_i32(v))) =>
                   call.ret = Ok(MaybeSome(v))
    /\ (call.op = "to_value") =>
          /\ \A v \in I32Values :
                call.arg = MaybeSome(v) => call.ret = i32_to_value(v)
          /\ call.arg \in {MaybeVoid, MaybeNone} => call.ret = Null
    /\ (call.op = "parse" /\ call.chained) =>
          /\ \A v \in I32Values :
                call.of = MaybeSome(v) => call.ret = Ok(MaybeSome(v))
          /\ call.of = MaybeNone => call.ret = Ok(MaybeNone)
          /\ call.of = MaybeVoid =>
                call.ret = Ok(MaybeNone) /\ call.ret # Ok(MaybeVoid)

C9_Witness ==
    /\ call.op = "parse" /\ call.chained
    /\ call.of = MaybeVoid
    /\ call.arg = OptionSome(Null)
    /\ call.ret = Ok(MaybeNone)

\* C10: the field value's own deserialize never returns Void: a successful
\* result is None or Some(v); a decoded record holds Void only where the
\* field was absent and the default policy supplied it.
C10_DeserializeNeverVoid ==
    /\ (call.op = "deserialize" /\ call.ret.ok) =>
          /\ call.ret.val.tag \in {"None", "Some"}
          /\ call.ret.val # MaybeVoid
    /\ (call.op = "from_str" /\ call.ret.ok /\ call.ret.val.b = MaybeVoid) =>
          /\ cfg.default
          /\ ~HasKey(call.arg, "b")
          /\ Maybe_default = MaybeVoid

C10_Witness ==
    /\ call.op = "deserialize"
    /\ call.arg = Null
    /\ call.ret = Ok(MaybeNone)

====
